---------------------------- MODULE Spec2Model ----------------------------
(***************************************************************************)
(* A model of the jobject attribute/descriptor engine: one object of one   *)
(* of the five kinds (JObject, JString, JArray, JFunction, JDate), its     *)
(* stored descriptor table properties_, its native payload, and the        *)
(* operations defineProperty, deleteProperty, hasProperty,                 *)
(* getPropertyNames, getProperty and setProperty; the element operations   *)
(* of a JArray; the functions getPropertyInternal synthesizes for each     *)
(* kind, held and called by a caller; and toString, one call at a time.    *)
(***************************************************************************)
EXTENDS Integers, Sequences, FiniteSets, TLC

VARIABLES
    type,          \* the dynamic class of the object (getType())
    properties_,   \* JObject::properties_ : name -> PropertyDescriptor
    value_,        \* JString::value_ (characters) or JArray::value_ (Values)
    name_,         \* JFunction::name_
    time_,         \* JDate::time_, in whole seconds since the epoch
    cell,          \* the member a caller's accessor closures capture (value1_)
    focus,         \* the name the caller's defineProperty calls are about
    touched,       \* names a caller's define, set or successful delete was applied to
    last,          \* the last call: operation, arguments and what it returned
    result,        \* the JArray the last call constructed and returned, if any
    held,          \* the synthesized functions the caller holds, in order of their get
    frames         \* the activations of toString that have not returned, outermost first

vars == <<type, properties_, value_, name_, time_, cell, focus, touched, last,
          result, held, frames>>

-----------------------------------------------------------------------------
(* Bounds of the model *)

\* longest element sequence a JArray is constructed with
MaxLen == 1

-----------------------------------------------------------------------------
(* ValueVariant *)

Null == [t |-> "null", n |-> 0, s |-> ""]

I32(k) == [t |-> "int32", n |-> k, s |-> ""]

U32(k) == [t |-> "uint32", n |-> k, s |-> ""]

U64(k) == [t |-> "uint64", n |-> k, s |-> ""]

\* a shared_ptr<JString> made from a text
StringValue(text) == [t |-> "string", n |-> 0, s |-> text]

\* a shared_ptr<JFunction> synthesized for the built-in member `member`,
\* whose closure captures `this`
BoundFunction(member) == [t |-> "function", n |-> 0, s |-> member]

\* values a caller passes to setProperty and stores in descriptors
Values == {Null, I32(1), U32(2)}

\* values a JArray is constructed from
ElemValues == {I32(1)}

-----------------------------------------------------------------------------
(* Accessor closures.  A closure is named by what its body does.           *)

NoFn == [k |-> "none", i |-> 0]

\* caller's closures: read the captured member / write it when given an int32
CellFn == [k |-> "cell", i |-> 0]

\* closures the constructors install
LengthFn == [k |-> "length", i |-> 0]

NameFn == [k |-> "name", i |-> 0]

IndexFn(idx) == [k |-> "index", i |-> idx]

PropertyDescriptor(v, w, e, c, g, s) ==
    [value |-> v, writable |-> w, enumerable |-> e, configurable |-> c,
     getter |-> g, setter |-> s]

\* descriptors a caller passes to defineProperty
Descriptors ==
    [value : {I32(1)}, writable : BOOLEAN, enumerable : BOOLEAN,
     configurable : BOOLEAN, getter : {NoFn, CellFn}, setter : {NoFn, CellFn}]

-----------------------------------------------------------------------------
(* std::to_string on a non-negative index *)

Digits == <<"0", "1", "2", "3", "4", "5", "6", "7", "8", "9">>

RECURSIVE to_string(_)
to_string(i) ==
    IF i < 10 THEN Digits[i + 1]
    ELSE to_string(i \div 10) \o Digits[(i % 10) + 1]

-----------------------------------------------------------------------------
(* The object as a record, so that an operation is a function of it *)

This ==
    [type |-> type, properties_ |-> properties_, value_ |-> value_,
     name_ |-> name_, time_ |-> time_, cell |-> cell]

\* resize that truncates and never extends
resizeTruncating(seq, n) ==
    [j \in 1..(IF n < Len(seq) THEN n ELSE Len(seq)) |-> seq[j]]

\* std::vector::resize: truncate, or extend with nullptr
resize(seq, n) ==
    [j \in 1..n |-> IF j <= Len(seq) THEN seq[j] ELSE Null]

\* invoking a getter closure
CallGetter(o, g) ==
    CASE g.k = "cell"   -> I32(o.cell)
      [] g.k = "length" -> U32(Len(o.value_))
      [] g.k = "name"   -> StringValue(o.name_)
      [] g.k = "index"  -> IF g.i < Len(o.value_) THEN o.value_[g.i + 1] ELSE Null
      [] OTHER          -> Null

\* invoking a setter closure with val
CallSetter(o, s, val) ==
    CASE s.k = "cell"   -> IF val.t = "int32" THEN [o EXCEPT !.cell = val.n] ELSE o
      [] s.k = "length" -> IF val.t = "uint32"
                           THEN [o EXCEPT !.value_ = resize(o.value_, val.n)]
                           ELSE o
      [] s.k = "index"  -> IF s.i < Len(o.value_)
                           THEN [o EXCEPT !.value_[s.i + 1] = val]
                           ELSE o
      [] OTHER          -> o

-----------------------------------------------------------------------------
(* JObject *)

\* properties_[name] = descriptor
Upsert(props, name, descriptor) ==
    [n \in (DOMAIN props) \cup {name} |-> IF n = name THEN descriptor ELSE props[n]]

\* defineProperty that leaves a non-configurable descriptor as it is
definePropertyGuarded(o, name, descriptor) ==
    IF name \in DOMAIN o.properties_ /\ ~o.properties_[name].configurable
    THEN [obj |-> o, ret |-> FALSE]
    ELSE [obj |-> [o EXCEPT !.properties_ = Upsert(o.properties_, name, descriptor)],
          ret |-> TRUE]

defineProperty(o, name, descriptor) ==
    [obj |-> [o EXCEPT !.properties_ = Upsert(o.properties_, name, descriptor)],
     ret |-> TRUE]

\* deleteProperty that does not test configurable
deletePropertyUnchecked(o, name) ==
    IF name \in DOMAIN o.properties_
    THEN [obj |-> [o EXCEPT !.properties_ =
                     [n \in (DOMAIN o.properties_) \ {name} |-> o.properties_[n]]],
          ret |-> TRUE]
    ELSE [obj |-> o, ret |-> FALSE]

deleteProperty(o, name) ==
    IF name \in DOMAIN o.properties_ /\ o.properties_[name].configurable
    THEN [obj |-> [o EXCEPT !.properties_ =
                     [n \in (DOMAIN o.properties_) \ {name} |-> o.properties_[n]]],
          ret |-> TRUE]
    ELSE [obj |-> o, ret |-> FALSE]

\* the order in which unordered_map is traversed: some fixed order of its keys
RECURSIVE Traversal(_)
Traversal(S) ==
    IF S = {} THEN <<>>
    ELSE LET n == CHOOSE x \in S : TRUE IN <<n>> \o Traversal(S \ {n})

RECURSIVE SelectEnumerable(_, _)
SelectEnumerable(props, order) ==
    IF order = <<>> THEN <<>>
    ELSE (IF props[Head(order)].enumerable THEN <<Head(order)>> ELSE <<>>)
         \o SelectEnumerable(props, Tail(order))

\* getPropertyNames that does not test enumerable
getPropertyNamesAll(o) == Traversal(DOMAIN o.properties_)

getPropertyNames(o) ==
    SelectEnumerable(o.properties_, Traversal(DOMAIN o.properties_))

\* getPropertyInternal that returns the stored value whatever accessor is held
JObject_getPropertyInternalStored(o, name) ==
    IF name \in DOMAIN o.properties_
    THEN o.properties_[name].value
    ELSE IF name = "toString" THEN BoundFunction("toString") ELSE Null

\* JObject::getPropertyInternal
JObject_getPropertyInternal(o, name) ==
    IF name \in DOMAIN o.properties_
    THEN IF o.properties_[name].getter # NoFn
         THEN CallGetter(o, o.properties_[name].getter)
         ELSE o.properties_[name].value
    ELSE IF name = "toString" THEN BoundFunction("toString") ELSE Null

JString_getPropertyInternal(o, name) ==
    IF name \in {"concat", "indexOf", "lastIndexOf"}
    THEN BoundFunction(name)
    ELSE JObject_getPropertyInternal(o, name)

JArray_getPropertyInternal(o, name) ==
    IF name \in {"push", "pop", "shift", "unshift", "splice", "slice"}
    THEN BoundFunction(name)
    ELSE JObject_getPropertyInternal(o, name)

JFunction_getPropertyInternal(o, name) ==
    IF name = "call"
    THEN BoundFunction(name)
    ELSE JObject_getPropertyInternal(o, name)

JDate_getPropertyInternal(o, name) ==
    IF name \in {"getTime", "setTime"}
    THEN BoundFunction(name)
    ELSE JObject_getPropertyInternal(o, name)

\* virtual dispatch of getPropertyInternal on the dynamic class
getPropertyInternal(o, name) ==
    CASE o.type = "String"   -> JString_getPropertyInternal(o, name)
      [] o.type = "Array"    -> JArray_getPropertyInternal(o, name)
      [] o.type = "Function" -> JFunction_getPropertyInternal(o, name)
      [] o.type = "Date"     -> JDate_getPropertyInternal(o, name)
      [] OTHER               -> JObject_getPropertyInternal(o, name)

getProperty(o, name) == getPropertyInternal(o, name)

\* a get that stores what it resolved for a name the table does not hold
getPropertyCaching(o, name) ==
    [obj |-> IF name \in DOMAIN o.properties_ THEN o
             ELSE [o EXCEPT !.properties_ = Upsert(o.properties_, name,
                      PropertyDescriptor(getPropertyInternal(o, name),
                                         TRUE, TRUE, TRUE, NoFn, NoFn))],
     ret |-> getPropertyInternal(o, name)]

\* getProperty is a const member function: the object afterwards and the
\* Value returned
getPropertyConst(o, name) == [obj |-> o, ret |-> getPropertyInternal(o, name)]

\* hasProperty that counts whatever a read resolves
hasPropertyResolved(o, name) ==
    name \in DOMAIN o.properties_ \/ getPropertyInternal(o, name) # Null

hasProperty(o, name) == name \in DOMAIN o.properties_

\* setProperty that stores the value before it finds the descriptor read-only
setPropertyStoring(o, name, val) ==
    IF name \in DOMAIN o.properties_
    THEN LET descriptor == o.properties_[name] IN
         IF descriptor.setter # NoFn
         THEN [obj |-> CallSetter(o, descriptor.setter, val), ret |-> TRUE,
               calls |-> <<val>>]
         ELSE [obj |-> [o EXCEPT !.properties_[name].value = val],
               ret |-> descriptor.writable, calls |-> <<>>]
    ELSE [obj |-> defineProperty(o, name,
                     PropertyDescriptor(val, TRUE, TRUE, TRUE, NoFn, NoFn)).obj,
          ret |-> TRUE, calls |-> <<>>]

\* setProperty that does not test writable
setPropertyUnchecked(o, name, val) ==
    IF name \in DOMAIN o.properties_
    THEN LET descriptor == o.properties_[name] IN
         IF descriptor.setter # NoFn
         THEN [obj |-> CallSetter(o, descriptor.setter, val), ret |-> TRUE,
               calls |-> <<val>>]
         ELSE [obj |-> [o EXCEPT !.properties_[name].value = val], ret |-> TRUE,
               calls |-> <<>>]
    ELSE [obj |-> [o EXCEPT !.properties_ = Upsert(o.properties_, name,
                     PropertyDescriptor(val, TRUE, TRUE, TRUE, NoFn, NoFn))],
          ret |-> TRUE, calls |-> <<>>]

\* setProperty: the object afterwards, the result, and the values the stored
\* setter was invoked with
setProperty(o, name, val) ==
    IF name \in DOMAIN o.properties_
    THEN LET descriptor == o.properties_[name] IN
         IF descriptor.setter # NoFn
         THEN [obj |-> CallSetter(o, descriptor.setter, val), ret |-> TRUE,
               calls |-> <<val>>]
         ELSE IF descriptor.writable
         THEN [obj |-> [o EXCEPT !.properties_[name].value = val], ret |-> TRUE,
               calls |-> <<>>]
         ELSE [obj |-> o, ret |-> FALSE, calls |-> <<>>]
    ELSE [obj |-> defineProperty(o, name,
                     PropertyDescriptor(val, TRUE, TRUE, TRUE, NoFn, NoFn)).obj,
          ret |-> TRUE, calls |-> <<>>]

-----------------------------------------------------------------------------
(* utils::def_prop_ex / def_prop_val and the constructors *)

def_prop_ex(o, prop_name, read_fn, write_fn, writable, enumerable, configurable) ==
    defineProperty(o, prop_name,
        PropertyDescriptor(Null, writable, enumerable, configurable, read_fn, write_fn)).obj

def_prop_val(o, prop_name, val, writable, enumerable, configurable) ==
    defineProperty(o, prop_name,
        PropertyDescriptor(val, writable, enumerable, configurable, NoFn, NoFn)).obj

Blank(ty) ==
    [type |-> ty, properties_ |-> <<>>, value_ |-> <<>>, name_ |-> "",
     time_ |-> 0, cell |-> 0]

\* JObject::JObject: initializeCommonProperties stores nothing
NewObject == Blank("Object")

\* initializeStringProperties that leaves length configurable
initializeStringPropertiesLoose(o) ==
    [o EXCEPT !.properties_ = Upsert(o.properties_, "length",
        PropertyDescriptor(Null, FALSE, FALSE, TRUE, LengthFn, NoFn))]

initializeStringProperties(o) ==
    def_prop_ex(o, "length", LengthFn, NoFn, FALSE, FALSE, FALSE)

NewString(chars) == initializeStringProperties([Blank("String") EXCEPT !.value_ = chars])

\* JArray::updateLength: an accessor descriptor for every current index
RECURSIVE updateLengthFrom(_, _)
updateLengthFrom(o, i) ==
    IF i >= Len(o.value_) THEN o
    ELSE updateLengthFrom(
             def_prop_ex(o, to_string(i), IndexFn(i), IndexFn(i), TRUE, TRUE, TRUE),
             i + 1)

updateLength(o) == updateLengthFrom(o, 0)

initializeArrayProperties(o) ==
    updateLength(def_prop_ex(o, "length", LengthFn, LengthFn, TRUE, FALSE, FALSE))

\* JArray(size_t size)
NewArraySized(size) ==
    initializeArrayProperties([Blank("Array") EXCEPT !.value_ = resize(<<>>, size)])

\* JArray(const std::vector<ValueVariant>& values)
NewArrayFrom(values) ==
    initializeArrayProperties([Blank("Array") EXCEPT !.value_ = values])

initializeFunctionProperties(o) ==
    def_prop_val(def_prop_ex(o, "name", NameFn, NoFn, FALSE, FALSE, TRUE),
                 "length", U32(0), FALSE, FALSE, TRUE)

NewFunction(fname) == initializeFunctionProperties([Blank("Function") EXCEPT !.name_ = fname])

\* JDate(int64_t timestamp): from_time_t(timestamp / 1000)
NewDate(timestamp) == [Blank("Date") EXCEPT !.time_ = timestamp \div 1000]

-----------------------------------------------------------------------------
(* JArray: element access and the functions getPropertyInternal synthesizes.
   Each takes the receiver and the argument vector and gives the receiver
   afterwards (obj), the returned Value (ret) and the JArray it has
   constructed, if any (made). *)

\* no JArray has been constructed by the call
NoResult == Blank("None")

\* a shared_ptr<JArray> as a Value: the array the call constructed
\* ("result") or the receiver itself ("this")
ArrayRef(which) == [t |-> "array", n |-> 0, s |-> which]

Min(a, b) == IF a < b THEN a ELSE b

Max(a, b) == IF a > b THEN a ELSE b

\* value_.begin() + from up to value_.begin() + to
Slice(seq, from, to) == SubSeq(seq, from + 1, to)

\* JArray::At
JArray_At(o, index) ==
    IF index < Len(o.value_) THEN o.value_[index + 1] ELSE Null

\* JArray::setElement
JArray_setElement(o, index, val) ==
    LET grown == IF index >= Len(o.value_) THEN resize(o.value_, index + 1)
                 ELSE o.value_
    IN  updateLength([o EXCEPT !.value_ = [grown EXCEPT ![index + 1] = val]])

\* push that reports the size before the call
JArray_pushOldSize(o, args) ==
    [obj |-> updateLength([o EXCEPT !.value_ = o.value_ \o args]),
     ret |-> U32(Len(o.value_)), made |-> NoResult]

JArray_push(o, args) ==
    LET pushed == o.value_ \o args IN
    [obj |-> updateLength([o EXCEPT !.value_ = pushed]),
     ret |-> U32(Len(pushed)), made |-> NoResult]

\* pop that removes the first element
JArray_popFront(o, args) ==
    IF o.value_ = <<>> THEN [obj |-> o, ret |-> Null, made |-> NoResult]
    ELSE [obj |-> updateLength([o EXCEPT !.value_ = Tail(o.value_)]),
          ret |-> o.value_[Len(o.value_)], made |-> NoResult]

JArray_pop(o, args) ==
    IF o.value_ = <<>> THEN [obj |-> o, ret |-> Null, made |-> NoResult]
    ELSE [obj |-> updateLength(
                    [o EXCEPT !.value_ = SubSeq(o.value_, 1, Len(o.value_) - 1)]),
          ret |-> o.value_[Len(o.value_)], made |-> NoResult]

JArray_shift(o, args) ==
    IF o.value_ = <<>> THEN [obj |-> o, ret |-> Null, made |-> NoResult]
    ELSE [obj |-> updateLength([o EXCEPT !.value_ = Tail(o.value_)]),
          ret |-> Head(o.value_), made |-> NoResult]

\* unshift that inserts its arguments one at a time at the front
JArray_unshiftEach(o, args) ==
    LET inserted == [j \in 1..Len(args) |-> args[Len(args) + 1 - j]] \o o.value_ IN
    [obj |-> updateLength([o EXCEPT !.value_ = inserted]),
     ret |-> U32(Len(inserted)), made |-> NoResult]

JArray_unshift(o, args) ==
    LET inserted == args \o o.value_ IN
    [obj |-> updateLength([o EXCEPT !.value_ = inserted]),
     ret |-> U32(Len(inserted)), made |-> NoResult]

\* the largest and the smallest int32_t
Int32Max == 2147483647

Int32Min == 0 - Int32Max - 1

\* the element pop reads (back()) and the one shift reads (front()), if any
popPositions(size) == IF size = 0 THEN <<>> ELSE <<size - 1>>

shiftPositions(size) == IF size = 0 THEN <<>> ELSE <<0>>

\* startIndex and deleteCount of splice
splicePositions(size, args) ==
    LET start0 == IF args[1].t = "int32" THEN args[1].n ELSE 0
        deleteCount0 == IF Len(args) > 1 /\ args[2].t = "int32"
                        THEN Max(0, args[2].n) ELSE size
        start == IF start0 < 0 THEN Max(0, size + start0) ELSE start0
        startIndex == Min(start, size)
    IN  [startIndex |-> startIndex,
         deleteCount |-> Min(deleteCount0, size - startIndex)]

\* slice positions that are not limited to the size
slicePositionsUnclamped(size, args) ==
    LET start0 == IF Len(args) > 0 /\ args[1].t = "int32" THEN args[1].n ELSE 0
        end0 == IF Len(args) > 1 /\ args[2].t = "int32" THEN args[2].n ELSE size
    IN  [startIndex |-> IF start0 < 0 THEN Max(0, size + start0) ELSE start0,
         endIndex |-> IF end0 < 0 THEN Max(0, size + end0) ELSE end0]

\* startIndex and endIndex of slice
slicePositions(size, args) ==
    LET start0 == IF Len(args) > 0 /\ args[1].t = "int32" THEN args[1].n ELSE 0
        end0 == IF Len(args) > 1 /\ args[2].t = "int32" THEN args[2].n ELSE size
        start == IF start0 < 0 THEN Max(0, size + start0) ELSE start0
        end == IF end0 < 0 THEN Max(0, size + end0) ELSE end0
    IN  [startIndex |-> Min(start, size), endIndex |-> Min(end, size)]

\* splice that inserts the new elements at the end of the vector
JArray_spliceAppend(o, args) ==
    IF args = <<>> THEN [obj |-> o, ret |-> ArrayRef("result"), made |-> NewArraySized(0)]
    ELSE
    LET size == Len(o.value_)
        start0 == IF args[1].t = "int32" THEN args[1].n ELSE 0
        deleteCount0 == IF Len(args) > 1 /\ args[2].t = "int32"
                        THEN Max(0, args[2].n) ELSE size
        start == IF start0 < 0 THEN Max(0, size + start0) ELSE start0
        startIndex == Min(start, size)
        deleteCount == Min(deleteCount0, size - startIndex)
        deletedArray == [NewArraySized(0) EXCEPT
                           !.value_ = Slice(o.value_, startIndex, startIndex + deleteCount)]
        erased == Slice(o.value_, 0, startIndex)
                    \o Slice(o.value_, startIndex + deleteCount, size)
        inserted == IF Len(args) > 2 THEN erased \o SubSeq(args, 3, Len(args))
                    ELSE erased
    IN  [obj |-> updateLength([o EXCEPT !.value_ = inserted]),
         ret |-> ArrayRef("result"), made |-> deletedArray]

JArray_splice(o, args) ==
    IF args = <<>> THEN [obj |-> o, ret |-> ArrayRef("result"), made |-> NewArraySized(0)]
    ELSE
    LET size == Len(o.value_)
        startIndex == splicePositions(size, args).startIndex
        deleteCount == splicePositions(size, args).deleteCount
        \* createArray(), then push_back on its getValue()
        deletedArray == [NewArraySized(0) EXCEPT
                           !.value_ = Slice(o.value_, startIndex, startIndex + deleteCount)]
        erased == Slice(o.value_, 0, startIndex)
                    \o Slice(o.value_, startIndex + deleteCount, size)
        inserted == IF Len(args) > 2
                    THEN Slice(erased, 0, startIndex) \o SubSeq(args, 3, Len(args))
                           \o Slice(erased, startIndex, Len(erased))
                    ELSE erased
    IN  [obj |-> updateLength([o EXCEPT !.value_ = inserted]),
         ret |-> ArrayRef("result"), made |-> deletedArray]

\* slice that counts a negative argument as 0
JArray_sliceNoWrap(o, args) ==
    LET size == Len(o.value_)
        start0 == IF Len(args) > 0 /\ args[1].t = "int32" THEN args[1].n ELSE 0
        end0 == IF Len(args) > 1 /\ args[2].t = "int32" THEN args[2].n ELSE size
        startIndex == Min(Max(0, start0), size)
        endIndex == Min(Max(0, end0), size)
    IN  IF startIndex >= endIndex
        THEN [obj |-> o, ret |-> ArrayRef("result"), made |-> NewArraySized(0)]
        ELSE [obj |-> o, ret |-> ArrayRef("result"),
              made |-> NewArrayFrom(Slice(o.value_, startIndex, endIndex))]

JArray_slice(o, args) ==
    LET startIndex == slicePositions(Len(o.value_), args).startIndex
        endIndex == slicePositions(Len(o.value_), args).endIndex
    IN  IF startIndex >= endIndex
        THEN [obj |-> o, ret |-> ArrayRef("result"), made |-> NewArraySized(0)]
        ELSE [obj |-> o, ret |-> ArrayRef("result"),
              made |-> NewArrayFrom(Slice(o.value_, startIndex, endIndex))]

-----------------------------------------------------------------------------
(* Rendering: toString of each class and utils::valueToString.  A
   std::string returned to the caller is a string; JString::value_ is the
   sequence of its characters. *)

\* the std::string holding the characters chars
RECURSIVE Flat(_)
Flat(chars) == IF chars = <<>> THEN "" ELSE Head(chars) \o Flat(Tail(chars))

\* std::to_string of a signed integer
SignedToString(k) == IF k < 0 THEN "-" \o to_string(0 - k) ELSE to_string(k)

\* toString of the object o, and valueToString of a Value held by o; the
\* handle a JArray holds to itself is rendered by its own toString (a JArray
\* that holds other JArrays is rendered one call at a time by RenderStep)
RECURSIVE toString(_), valueToStringIn(_, _), JoinFrom(_, _)
valueToStringIn(o, v) ==
    CASE v.t = "null"     -> "null"
      [] v.t \in {"int32", "uint32", "uint64"} -> SignedToString(v.n)
      [] v.t = "string"   -> v.s
      [] v.t = "function" -> "function " \o v.s \o "() { [native code] }"
      [] v.t = "array"    -> toString(o)
      [] OTHER            -> "undefined"

\* JArray::toString from element i on
JoinFrom(o, i) ==
    IF i > Len(o.value_) THEN ""
    ELSE (IF i > 1 THEN "," ELSE "") \o valueToStringIn(o, o.value_[i]) \o JoinFrom(o, i + 1)

toString(o) ==
    CASE o.type = "String"   -> Flat(o.value_)
      [] o.type = "Array"    -> JoinFrom(o, 1)
      [] o.type = "Function" -> "function " \o o.name_ \o "() { [native code] }"
      [] o.type = "Date"     -> "date " \o SignedToString(o.time_)
      [] OTHER               -> "[object Object]"

\* utils::valueToString of an argument
valueToString(v) == valueToStringIn(NoResult, v)

\* the toString closure of JObject::getPropertyInternal
JObject_toStringCall(o, args) ==
    [obj |-> o, ret |-> StringValue(toString(o)), made |-> NoResult]

-----------------------------------------------------------------------------
(* JString: the functions getPropertyInternal synthesizes *)

RECURSIVE Appended(_, _)
Appended(text, args) ==
    IF args = <<>> THEN text
    ELSE Appended(text \o valueToString(Head(args)), Tail(args))

\* std::string::find and rfind: the position, or -1 for npos
Occurrences(text, x) ==
    {p \in 0..(Len(text) - Len(x)) : SubSeq(text, p + 1, p + Len(x)) = x}

Find(text, x) ==
    IF Occurrences(text, x) = {} THEN -1
    ELSE CHOOSE p \in Occurrences(text, x) : \A q \in Occurrences(text, x) : p <= q

RFind(text, x) ==
    IF Occurrences(text, x) = {} THEN -1
    ELSE CHOOSE p \in Occurrences(text, x) : \A q \in Occurrences(text, x) : p >= q

\* concat that renders its arguments last to first
JString_concatReversed(o, args) ==
    [obj |-> o,
     ret |-> StringValue(Appended(Flat(o.value_),
                                  [j \in 1..Len(args) |-> args[Len(args) + 1 - j]])),
     made |-> NoResult]

JString_concat(o, args) ==
    [obj |-> o, ret |-> StringValue(Appended(Flat(o.value_), args)), made |-> NoResult]

JString_indexOf(o, args) ==
    [obj |-> o,
     ret |-> IF args = <<>> THEN I32(-1)
             ELSE I32(Find(Flat(o.value_), valueToString(args[1]))),
     made |-> NoResult]

JString_lastIndexOf(o, args) ==
    [obj |-> o,
     ret |-> IF args = <<>> THEN I32(-1)
             ELSE I32(RFind(Flat(o.value_), valueToString(args[1]))),
     made |-> NoResult]

\* JString::setValue
JString_setValue(o, chars) == [o EXCEPT !.value_ = chars]

-----------------------------------------------------------------------------
(* JFunction and JDate *)

\* JFunction::Call of the function a caller constructed it with
JFunction_call(o, args) == [obj |-> o, ret |-> Null, made |-> NoResult]

\* integer division of C++, which truncates
Quotient(a, b) == IF a >= 0 THEN a \div b ELSE 0 - ((0 - a) \div b)

\* JDate::getTime: time_ counted in milliseconds
JDate_getTime(o) == o.time_ * 1000

\* JDate::setTime: from_time_t(timestamp / 1000)
JDate_setTime(o, timestamp) == [o EXCEPT !.time_ = Quotient(timestamp, 1000)]

JDate_getTimeCall(o, args) ==
    [obj |-> o, ret |-> U64(JDate_getTime(o)), made |-> NoResult]

JDate_setTimeCall(o, args) ==
    LET after == IF args # <<>> /\ args[1].t \in {"uint64", "int32"}
                 THEN JDate_setTime(o, args[1].n)
                 ELSE o
    IN  [obj |-> after, ret |-> U64(JDate_getTime(after)), made |-> NoResult]

-----------------------------------------------------------------------------
(* JFunction::Call of a synthesized function: the closure synthesized for
   member runs on the object it captured *)

CallBuiltin(o, member, args) ==
    CASE member = "push"        -> JArray_push(o, args)
      [] member = "pop"         -> JArray_pop(o, args)
      [] member = "shift"       -> JArray_shift(o, args)
      [] member = "unshift"     -> JArray_unshift(o, args)
      [] member = "splice"      -> JArray_splice(o, args)
      [] member = "slice"       -> JArray_slice(o, args)
      [] member = "concat"      -> JString_concat(o, args)
      [] member = "indexOf"     -> JString_indexOf(o, args)
      [] member = "lastIndexOf" -> JString_lastIndexOf(o, args)
      [] member = "call"        -> JFunction_call(o, args)
      [] member = "getTime"     -> JDate_getTimeCall(o, args)
      [] member = "setTime"     -> JDate_setTimeCall(o, args)
      [] OTHER                  -> JObject_toStringCall(o, args)

-----------------------------------------------------------------------------
(* The caller *)

\* a name no kind gives a meaning to, and a second one
PlainName == "x"

OtherName == "y"

\* the names each kind resolves without a caller having stored them
KindMethods(ty) ==
    CASE ty = "String"   -> {"concat", "indexOf", "lastIndexOf"}
      [] ty = "Array"    -> {"push", "pop", "shift", "unshift", "splice", "slice"}
      [] ty = "Function" -> {"call"}
      [] ty = "Date"     -> {"getTime", "setTime"}
      [] OTHER           -> {}

IndexNames == {to_string(i) : i \in 0..MaxLen}

\* the names a caller may ask about on an object of kind ty
Names(ty) ==
    KindMethods(ty) \cup {"toString", PlainName}
    \cup (IF ty \in {"String", "Array", "Function"} THEN {"length"} ELSE {})
    \cup (IF ty = "Function" THEN {"name"} ELSE {})
    \cup (IF ty \in {"Array", "Object"} THEN IndexNames ELSE {})

Constructed ==
    {NewObject}
    \cup {NewString(chars) : chars \in {<<>>, <<"a", "b">>}}
    \cup {NewArraySized(size) : size \in 0..MaxLen}
    \cup {NewArrayFrom(values) :
            values \in UNION {[1..n -> ElemValues] : n \in 0..MaxLen}}
    \cup {NewFunction(fname) : fname \in {"f"}}
    \cup {NewDate(timestamp) : timestamp \in {1500}}

NoDescriptor == PropertyDescriptor(Null, FALSE, FALSE, FALSE, NoFn, NoFn)

\* what the table held for name when a call was made: whether a descriptor
\* was stored, and its writable and configurable flags
Before(o, name) ==
    IF name \in DOMAIN o.properties_
    THEN [had |-> TRUE, writable |-> o.properties_[name].writable,
          configurable |-> o.properties_[name].configurable]
    ELSE [had |-> FALSE, writable |-> FALSE, configurable |-> FALSE]

Call(op, name, val, descriptor, ret, names, calls, afterGet) ==
    [op |-> op, name |-> name, val |-> val, descriptor |-> descriptor, ret |-> ret,
     names |-> names, calls |-> calls, afterGet |-> afterGet,
     before |-> Before(This, name), args |-> <<>>, out |-> Null, id |-> 0,
     positions |-> <<>>]

Init ==
    \E o \in Constructed :
        /\ type = o.type
        /\ properties_ = o.properties_
        /\ value_ = o.value_
        /\ name_ = o.name_
        /\ time_ = o.time_
        /\ cell = o.cell
        /\ focus \in Names(o.type)
        /\ touched = {}
        /\ last = Call("new", "", Null, NoDescriptor, TRUE, <<>>, <<>>, FALSE)
        /\ result = NoResult
        /\ held = <<>>
        /\ frames = <<>>

\* the object becomes o
Becomes(o) ==
    /\ properties_' = o.properties_
    /\ value_' = o.value_
    /\ cell' = o.cell
    /\ UNCHANGED <<frames, held, type, name_, time_, focus, result>>

Define ==
    \E descriptor \in Descriptors :
        LET r == defineProperty(This, focus, descriptor) IN
        /\ Becomes(r.obj)
        /\ touched' = touched \cup {focus}
        /\ last' = Call("define", focus, Null, descriptor, r.ret, <<>>, <<>>, FALSE)

Set ==
    \E val \in Values :
        LET r == setProperty(This, focus, val) IN
        /\ Becomes(r.obj)
        /\ touched' = touched \cup {focus}
        /\ last' = Call("set", focus, val, NoDescriptor, r.ret, <<>>, r.calls, FALSE)

\* a plain write to a second name, so that the table holds more than one
\* caller's entry
SetOther ==
    LET r == setProperty(This, OtherName, I32(1)) IN
    /\ Becomes(r.obj)
    /\ touched' = touched \cup {OtherName}
    /\ last' = Call("set", OtherName, I32(1), NoDescriptor, r.ret, <<>>, r.calls, FALSE)

Delete ==
    LET r == deleteProperty(This, focus) IN
    /\ Becomes(r.obj)
    /\ touched' = IF r.ret THEN touched \cup {focus} ELSE touched
    /\ last' = Call("delete", focus, Null, NoDescriptor, r.ret, <<>>, <<>>, FALSE)

Get ==
    LET r == getPropertyConst(This, focus) IN
    /\ Becomes(r.obj)
    /\ touched' = touched
    /\ last' = Call("get", focus, r.ret, NoDescriptor, TRUE, <<>>, <<>>, FALSE)

Has ==
    /\ Becomes(This)
    /\ touched' = touched
    /\ last' = Call("has", focus, Null, NoDescriptor, hasProperty(This, focus),
                    <<>>, <<>>, last.op = "get")

Enumerate ==
    /\ Becomes(This)
    /\ touched' = touched
    /\ last' = Call("enumerate", "", Null, NoDescriptor, TRUE,
                    getPropertyNames(This), <<>>, FALSE)

Next == Define \/ Set \/ SetOther \/ Delete \/ Get \/ Has \/ Enumerate

Spec == Init /\ [][Next]_vars

-----------------------------------------------------------------------------
(* A JArray and the calls of its synthesized functions *)

\* longest element sequence the JArray of SpecList grows to
MaxSize == 3

\* most arguments passed to push and unshift
MaxArgs == 3

\* values a caller pushes and inserts
ListValues == {I32(1), I32(2)}

SeqsUpTo(S, n) == UNION {[1..k -> S] : k \in 0..n}

\* int32 arguments a caller passes as start, as end and as deleteCount: below
\* minus the length, negative within it, within it, and beyond it
Starts == {-5, -2, 0, 1, 5}

Ends == {-5, -1, 0, 2, 5}

DeleteCounts == {-1, 0, 2, 5}

\* elements a caller passes to splice for insertion
Items == {<<>>, <<I32(2)>>, <<I32(2), I32(1)>>}

SliceArgs ==
    {<<>>} \cup {<<I32(start)>> : start \in Starts}
    \cup {<<I32(start), I32(end)>> : start \in Starts, end \in Ends}

SpliceArgs ==
    {<<>>} \cup {<<I32(start)>> : start \in Starts}
    \cup {<<I32(start), I32(deleteCount)>> \o items :
            start \in Starts, deleteCount \in DeleteCounts, items \in Items}

\* the record of a call of a synthesized function
Invoke(op, args, out) ==
    [Call(op, "", Null, NoDescriptor, TRUE, <<>>, <<>>, FALSE)
       EXCEPT !.args = args, !.out = out]

InitList ==
    \E values \in SeqsUpTo(ListValues, MaxSize) :
        LET o == NewArrayFrom(values) IN
        /\ type = o.type
        /\ properties_ = o.properties_
        /\ value_ = o.value_
        /\ name_ = o.name_
        /\ time_ = o.time_
        /\ cell = o.cell
        /\ focus = "length"
        /\ touched = {}
        /\ last = Call("new", "", Null, NoDescriptor, TRUE, <<>>, <<>>, FALSE)
        /\ result = NoResult
        /\ held = <<>>
        /\ frames = <<>>

\* the function synthesized for op has been called with args and gave r
Called(op, args, r) ==
    /\ Len(r.obj.value_) <= MaxSize
    /\ properties_' = r.obj.properties_
    /\ value_' = r.obj.value_
    /\ result' = r.made
    /\ last' = Invoke(op, args, r.ret)
    /\ UNCHANGED <<frames, held, type, name_, time_, cell, focus, touched>>

Push ==
    \E args \in SeqsUpTo(ListValues, MaxArgs) : Called("push", args, JArray_push(This, args))

Pop == Called("pop", <<>>, JArray_pop(This, <<>>))

Shift == Called("shift", <<>>, JArray_shift(This, <<>>))

Unshift ==
    \E args \in SeqsUpTo(ListValues, MaxArgs) :
        Called("unshift", args, JArray_unshift(This, args))

Splice ==
    \E args \in SpliceArgs : Called("splice", args, JArray_splice(This, args))

SliceCall ==
    \E args \in SliceArgs : Called("slice", args, JArray_slice(This, args))

\* the caller pushes a value onto the array the last call returned
PushResult ==
    /\ last.out.t = "array"
    /\ LET target == IF last.out.s = "this" THEN This ELSE result
           r == JArray_push(target, <<I32(2)>>)
       IN  /\ Len(r.obj.value_) <= MaxSize
           /\ IF last.out.s = "this"
              THEN /\ properties_' = r.obj.properties_
                   /\ value_' = r.obj.value_
                   /\ result' = result
              ELSE /\ result' = r.obj
                   /\ UNCHANGED <<properties_, value_>>
    /\ last' = [last EXCEPT !.op = "pushResult"]
    /\ UNCHANGED <<frames, held, type, name_, time_, cell, focus, touched>>

NextList == Push \/ Pop \/ Shift \/ Unshift \/ Splice \/ SliceCall \/ PushResult

SpecList == InitList /\ [][NextList]_vars

-----------------------------------------------------------------------------
(* A JArray, its length and index names, and the element accessors *)

\* indices a caller reads and writes: within, at and beyond the length
Indices == 0..MaxLen

\* values a caller writes to "length"
LengthValues == {U32(n) : n \in 0..(MaxLen + 1)} \cup {I32(n) : n \in 0..MaxLen}

\* the record of a call about index
IndexCall(op, index, val, ret, calls) ==
    [Call(op, to_string(index), val, NoDescriptor, ret, <<>>, calls, FALSE)
       EXCEPT !.args = <<U64(index)>>]

InitIndex ==
    \E o \in {NewArraySized(size) : size \in 0..MaxLen}
             \cup {NewArrayFrom(values) : values \in SeqsUpTo(ElemValues, MaxLen)} :
        /\ type = o.type
        /\ properties_ = o.properties_
        /\ value_ = o.value_
        /\ name_ = o.name_
        /\ time_ = o.time_
        /\ cell = o.cell
        /\ focus = "length"
        /\ touched = {}
        /\ last = Call("new", "", Null, NoDescriptor, TRUE, <<>>, <<>>, FALSE)
        /\ result = NoResult
        /\ held = <<>>
        /\ frames = <<>>

\* the JArray becomes o, which holds no more than MaxLen + 1 elements
BecomesList(o) ==
    /\ Len(o.value_) <= MaxLen + 1
    /\ properties_' = o.properties_
    /\ value_' = o.value_
    /\ UNCHANGED <<frames, held, type, name_, time_, cell, focus>>

\* setProperty("length", val)
WriteLength ==
    \E val \in LengthValues :
        LET r == setProperty(This, "length", val) IN
        /\ BecomesList(r.obj)
        /\ result' = NoResult
        /\ touched' = touched
        /\ last' = Call("set", "length", val, NoDescriptor, r.ret, <<>>, r.calls, FALSE)

\* getProperty("length")
ReadLength ==
    /\ BecomesList(This)
    /\ result' = NoResult
    /\ touched' = touched
    /\ last' = Call("get", "length", getProperty(This, "length"), NoDescriptor, TRUE,
                    <<>>, <<>>, FALSE)

\* getProperty(std::to_string(index))
ReadIndex ==
    \E index \in Indices :
        /\ BecomesList(This)
        /\ result' = NoResult
        /\ touched' = touched
        /\ last' = IndexCall("get", index, getProperty(This, to_string(index)), TRUE, <<>>)

\* setProperty(std::to_string(index), val)
WriteIndex ==
    \E index \in Indices, val \in ListValues :
        LET r == setProperty(This, to_string(index), val) IN
        /\ BecomesList(r.obj)
        /\ result' = NoResult
        /\ touched' = IF index >= Len(value_) THEN touched \cup {to_string(index)}
                      ELSE touched
        /\ last' = IndexCall("set", index, val, r.ret, r.calls)

\* (*arr)[index], that is At(index)
AtIndex ==
    \E index \in Indices :
        /\ BecomesList(This)
        /\ result' = NoResult
        /\ touched' = touched
        /\ last' = IndexCall("at", index, JArray_At(This, index), TRUE, <<>>)

\* setElement(index, val)
SetElement ==
    \E index \in Indices, val \in ListValues :
        /\ BecomesList(JArray_setElement(This, index, val))
        /\ result' = NoResult
        /\ touched' = IF index >= Len(value_) THEN touched \cup {to_string(index)}
                      ELSE touched
        /\ last' = IndexCall("setElement", index, val, TRUE, <<>>)

\* a synthesized function is called with args and gives r
CalledOn(op, args, r) ==
    /\ BecomesList(r.obj)
    /\ result' = r.made
    /\ touched' = touched
    /\ last' = Invoke(op, args, r.ret)

PushOne == CalledOn("push", <<I32(1)>>, JArray_push(This, <<I32(1)>>))

PopOne == CalledOn("pop", <<>>, JArray_pop(This, <<>>))

ShiftOne == CalledOn("shift", <<>>, JArray_shift(This, <<>>))

UnshiftOne == CalledOn("unshift", <<I32(1)>>, JArray_unshift(This, <<I32(1)>>))

\* splice(0, 1): the first element is cut out and returned
SpliceOne ==
    CalledOn("splice", <<I32(0), I32(1)>>, JArray_splice(This, <<I32(0), I32(1)>>))

\* slice(): a copy of the whole List
SliceAll == CalledOn("slice", <<>>, JArray_slice(This, <<>>))

NextIndex ==
    \/ WriteLength \/ ReadLength \/ ReadIndex \/ WriteIndex \/ AtIndex \/ SetElement
    \/ PushOne \/ PopOne \/ ShiftOne \/ UnshiftOne \/ SpliceOne \/ SliceAll

SpecIndex == InitIndex /\ [][NextIndex]_vars

-----------------------------------------------------------------------------
(* Synthesized functions held by a caller: a caller gets the built-in member
   `focus` some number of times, keeps every JFunction it was given, and
   calls them between mutations of the object. *)

\* how many synthesized functions the caller holds
MaxHeld == 2

\* a closure that captures a copy of the object
CaptureCopy(o) == [live |-> FALSE, copy |-> o]

\* the capture list [this] of every synthesized closure
Capture(o) == [live |-> TRUE, copy |-> NoResult]

\* a get that hands out the JFunction it made first
SharedInstance(h) == 1

\* std::make_shared<JFunction>: an instance no earlier get returned
NewInstance(h) == Len(h) + 1

\* the JFunction a get of member returned; stale records that the object was
\* mutated since
Handle(member, id, self) ==
    [member |-> member, id |-> id, self |-> self, stale |-> FALSE]

Aged(h, changed) ==
    IF changed THEN [k \in DOMAIN h |-> [h[k] EXCEPT !.stale = TRUE]] ELSE h

\* the name the caller's define, set and delete calls are about
OwnName == "0"

OwnDescriptors ==
    {PropertyDescriptor(I32(1), TRUE, TRUE, TRUE, NoFn, NoFn),
     PropertyDescriptor(I32(1), FALSE, TRUE, FALSE, NoFn, NoFn)}

Texts == {<<>>, <<"a", "b">>, <<"b", "a", "b">>}

Timestamps == {0, 1500, 2000}

\* the objects a caller constructs, each with the constructor's arguments
Constructs(o, args) == [obj |-> o, args |-> args]

CallTargets ==
    {Constructs(NewObject, <<>>), Constructs(NewFunction("f"), <<StringValue("f")>>)}
    \cup {Constructs(NewString(chars), <<StringValue(Flat(chars))>>) : chars \in Texts}
    \cup {Constructs(NewArrayFrom(values), values) :
            values \in SeqsUpTo(ListValues, MaxLen + 1)}
    \cup {Constructs(NewDate(timestamp), <<U64(timestamp)>>) : timestamp \in Timestamps}

\* the arguments a caller passes to the function synthesized for member
ArgsOf(member) ==
    CASE member \in {"push", "unshift"} -> {<<I32(2)>>}
      [] member = "splice"  -> {<<I32(0), I32(1)>>}
      [] member = "slice"   -> {<<>>, <<I32(-1)>>}
      [] member = "concat"  -> {<<>>, <<StringValue("b")>>, <<I32(1), Null>>}
      [] member \in {"indexOf", "lastIndexOf"} ->
             {<<>>, <<StringValue("")>>, <<StringValue("b")>>,
              <<StringValue("ab")>>, <<StringValue("bb")>>, <<I32(1)>>}
      [] member = "setTime" ->
             {<<>>, <<Null>>, <<I32(1500)>>} \cup {<<U64(t)>> : t \in Timestamps}
      [] OTHER              -> {<<>>}

InitCalls ==
    \E made \in CallTargets :
        LET o == made.obj IN
        /\ type = o.type
        /\ properties_ = o.properties_
        /\ value_ = o.value_
        /\ name_ = o.name_
        /\ time_ = o.time_
        /\ cell = o.cell
        /\ focus \in KindMethods(o.type) \cup {"toString"}
        /\ touched = {}
        /\ last = Invoke("new", made.args, Null)
        /\ result = NoResult
        /\ held = <<>>
        /\ frames = <<>>

\* the object becomes o, the last call made the JArray made, and the caller
\* holds h
BecomesHeld(o, made, h) ==
    /\ o.type = "Array" => Len(o.value_) <= MaxLen + 1
    /\ properties_' = o.properties_
    /\ value_' = o.value_
    /\ time_' = o.time_
    /\ result' = made
    /\ held' = h
    /\ UNCHANGED <<frames, type, name_, cell, focus, touched>>

\* getProperty(focus): the caller keeps the JFunction
Resolve ==
    /\ Len(held) < MaxHeld
    /\ LET got == getProperty(This, focus) IN
       /\ got.t = "function"
       /\ BecomesHeld(This, NoResult,
                      Append(held, Handle(got.s, NewInstance(held), Capture(This))))
       /\ last' = Call("get", focus, got, NoDescriptor, TRUE, <<>>, <<>>, FALSE)

\* JFunction::Call of a held function
InvokeHeld ==
    \E k \in DOMAIN held :
        \E args \in ArgsOf(held[k].member) :
            LET h      == held[k]
                target == IF h.self.live THEN This ELSE h.self.copy
                r      == CallBuiltin(target, h.member, args)
                after  == IF h.self.live THEN r.obj ELSE This
            IN  /\ BecomesHeld(after, r.made, Aged(held, after # This))
                /\ last' = [Invoke(h.member, args, r.ret)
                              EXCEPT !.name = h.member, !.id = h.id]

\* JString::setValue
SetValue ==
    /\ type = "String"
    /\ \E chars \in Texts :
           LET after == JString_setValue(This, chars) IN
           /\ BecomesHeld(after, NoResult, Aged(held, after # This))
           /\ last' = Invoke("setValue", <<StringValue(Flat(chars))>>, Null)

\* JArray::setElement
SetFirst ==
    /\ type = "Array"
    /\ LET after == JArray_setElement(This, 0, I32(2)) IN
       /\ BecomesHeld(after, NoResult, Aged(held, after # This))
       /\ last' = Invoke("setElement", <<U64(0), I32(2)>>, Null)

\* JDate::setTime called on the object
SetTime ==
    /\ type = "Date"
    /\ \E timestamp \in Timestamps :
           LET after == JDate_setTime(This, timestamp) IN
           /\ BecomesHeld(after, NoResult, Aged(held, after # This))
           /\ last' = Invoke("JDate::setTime", <<U64(timestamp)>>, Null)

DefineOwn ==
    \E descriptor \in OwnDescriptors :
        LET r == defineProperty(This, OwnName, descriptor) IN
        /\ BecomesHeld(r.obj, NoResult, Aged(held, r.obj # This))
        /\ last' = Call("define", OwnName, Null, descriptor, r.ret, <<>>, <<>>, FALSE)

SetOwn ==
    LET r == setProperty(This, OwnName, I32(2)) IN
    /\ BecomesHeld(r.obj, NoResult, Aged(held, r.obj # This))
    /\ last' = Call("set", OwnName, I32(2), NoDescriptor, r.ret, <<>>, r.calls, FALSE)

DeleteOwn ==
    LET r == deleteProperty(This, OwnName) IN
    /\ BecomesHeld(r.obj, NoResult, Aged(held, r.obj # This))
    /\ last' = Call("delete", OwnName, Null, NoDescriptor, r.ret, <<>>, <<>>, FALSE)

GetOwn ==
    /\ BecomesHeld(This, NoResult, held)
    /\ last' = Call("get", OwnName, getProperty(This, OwnName), NoDescriptor, TRUE,
                    <<>>, <<>>, FALSE)

NextCalls ==
    \/ Resolve \/ InvokeHeld \/ SetValue \/ SetFirst \/ SetTime
    \/ DefineOwn \/ SetOwn \/ DeleteOwn \/ GetOwn

SpecCalls == InitCalls /\ [][NextCalls]_vars

-----------------------------------------------------------------------------
(* The element positions the List functions compute from their int32
   arguments before they touch value_ *)

RangeValues == {Int32Min, -2, 0, 1, Int32Max}

RangeArgs ==
    {<<>>, <<U32(2)>>}
    \cup {<<I32(a)>> : a \in RangeValues}
    \cup {<<I32(a), I32(b)>> : a, b \in RangeValues}

InitRange ==
    \E values \in SeqsUpTo(ListValues, MaxSize) :
        LET o == NewArrayFrom(values) IN
        /\ type = o.type
        /\ properties_ = o.properties_
        /\ value_ = o.value_
        /\ name_ = o.name_
        /\ time_ = o.time_
        /\ cell = o.cell
        /\ focus = "length"
        /\ touched = {}
        /\ last = Invoke("new", values, Null)
        /\ result = NoResult
        /\ held = <<>>
        /\ frames = <<>>

\* op was called with args, computed positions and gave r
Positioned(op, args, positions, r) ==
    /\ properties_' = r.obj.properties_
    /\ value_' = r.obj.value_
    /\ result' = r.made
    /\ last' = [Invoke(op, args, r.ret) EXCEPT !.positions = positions]
    /\ UNCHANGED <<frames, held, type, name_, time_, cell, focus, touched>>

\* slice up to the positions it computes; the copy it then makes is that of
\* SliceCall
SliceAt ==
    \E args \in RangeArgs :
        LET p == slicePositions(Len(value_), args) IN
        Positioned("slice", args, <<p.startIndex, p.endIndex>>,
                   [obj |-> This, ret |-> ArrayRef("result"), made |-> NoResult])

SpliceAt ==
    \E args \in RangeArgs \ {<<>>} :
        LET p == splicePositions(Len(value_), args) IN
        Positioned("splice", args, <<p.startIndex, p.deleteCount>>,
                   JArray_splice(This, args))

PopAt == Positioned("pop", <<>>, popPositions(Len(value_)), JArray_pop(This, <<>>))

ShiftAt == Positioned("shift", <<>>, shiftPositions(Len(value_)), JArray_shift(This, <<>>))

NextRange == SliceAt \/ SpliceAt \/ PopAt \/ ShiftAt

SpecRange == InitRange /\ [][NextRange]_vars

-----------------------------------------------------------------------------
(* JArray::toString one call at a time: the JArray, a second JArray the
   caller made (result), handles to either pushed into either, the JArray
   stored in its own table, and the activations of toString and
   utils::valueToString that the toString function got from it starts. *)

\* how many activations of toString the stack has room for
MaxDepth == 4

RenderValues == {I32(1), ArrayRef("this"), ArrayRef("result")}

\* the elements of the JArray a handle refers to
ElementsOf(which) == IF which = "this" THEN value_ ELSE result.value_

InitRender ==
    \E values \in SeqsUpTo(ElemValues, MaxLen) :
        LET o == NewArrayFrom(values) IN
        /\ type = o.type
        /\ properties_ = o.properties_
        /\ value_ = o.value_
        /\ name_ = o.name_
        /\ time_ = o.time_
        /\ cell = o.cell
        /\ focus = "toString"
        /\ touched = {}
        /\ last = Invoke("new", values, Null)
        /\ result = NewArraySized(0)
        /\ held = <<>>
        /\ frames = <<>>

\* push of a Value, which may be a handle, onto one of the two JArrays
PushValue ==
    /\ frames = <<>>
    /\ \E which \in {"this", "result"}, val \in RenderValues :
           LET r == JArray_push(IF which = "this" THEN This ELSE result, <<val>>) IN
           /\ Len(r.obj.value_) <= MaxLen + 1
           /\ IF which = "this"
              THEN /\ properties_' = r.obj.properties_
                   /\ value_' = r.obj.value_
                   /\ result' = result
              ELSE /\ result' = r.obj
                   /\ UNCHANGED <<properties_, value_>>
           /\ last' = [Invoke("push", <<val>>, r.ret) EXCEPT !.name = which]
           /\ UNCHANGED <<frames, held, type, name_, time_, cell, focus, touched>>

\* setProperty(PlainName, handle to the JArray itself), then getProperty
StoreSelf ==
    /\ frames = <<>>
    /\ LET r == setProperty(This, PlainName, ArrayRef("this")) IN
       /\ properties_' = r.obj.properties_
       /\ last' = Call("get", PlainName, getProperty(r.obj, PlainName), NoDescriptor,
                       r.ret, getPropertyNames(r.obj), <<>>, FALSE)
       /\ UNCHANGED <<frames, held, type, value_, name_, time_, cell, focus, touched,
                      result>>

\* the function got as "toString" is called: JArray::toString is entered
CallToString ==
    /\ frames = <<>>
    /\ getProperty(This, "toString").t = "function"
    /\ frames' = <<[list |-> "this", i |-> 0, oss |-> ""]>>
    /\ last' = Invoke("toString", <<>>, Null)
    /\ UNCHANGED <<held, type, properties_, value_, name_, time_, cell, focus, touched,
                   result>>

\* one turn of the loop of the innermost JArray::toString: it renders a
\* scalar element, or enters toString of the JArray an element refers to, or
\* returns its text to its caller; entering toString when the stack holds
\* MaxDepth activations exhausts the stack, which ends the process
RenderStep ==
    /\ frames # <<>>
    /\ last.op # "abort"
    /\ LET depth == Len(frames)
           top   == frames[depth]
           elems == ElementsOf(top.list)
           comma == IF top.i > 0 THEN "," ELSE ""
       IN  IF top.i >= Len(elems)
           THEN IF depth = 1
                THEN /\ frames' = <<>>
                     /\ last' = Invoke("toString", <<>>, StringValue(top.oss))
                ELSE /\ frames' = [SubSeq(frames, 1, depth - 1) EXCEPT
                                     ![depth - 1].i = @ + 1,
                                     ![depth - 1].oss =
                                         @ \o (IF frames[depth - 1].i > 0 THEN "," ELSE "")
                                           \o top.oss]
                     /\ last' = last
           ELSE IF elems[top.i + 1].t = "array"
                THEN IF depth < MaxDepth
                     THEN /\ frames' = Append(frames,
                                 [list |-> elems[top.i + 1].s, i |-> 0, oss |-> ""])
                          /\ last' = last
                     ELSE /\ frames' = frames
                          /\ last' = Invoke("abort", <<>>, Null)
                ELSE /\ frames' = [frames EXCEPT
                                     ![depth].i = @ + 1,
                                     ![depth].oss = @ \o comma
                                                      \o valueToString(elems[top.i + 1])]
                     /\ last' = last
    /\ UNCHANGED <<held, type, properties_, value_, name_, time_, cell, focus, touched,
                   result>>

NextRender == PushValue \/ StoreSelf \/ CallToString \/ RenderStep

SpecRender == InitRender /\ [][NextRender]_vars /\ WF_vars(RenderStep)

-----------------------------------------------------------------------------
(* Properties *)

\* the object after the step
ThisNext ==
    [type |-> type', properties_ |-> properties_', value_ |-> value_',
     name_ |-> name_', time_ |-> time_', cell |-> cell']

Range(seq) == {seq[i] : i \in 1..Len(seq)}

Stored(o, name) == name \in DOMAIN o.properties_

PlainDescriptor(val) == PropertyDescriptor(val, TRUE, TRUE, TRUE, NoFn, NoFn)

\* what reading a descriptor gives: its getter's result, else its stored value
ReadOf(o, descriptor) ==
    IF descriptor.getter # NoFn THEN CallGetter(o, descriptor.getter)
    ELSE descriptor.value

\* the built-in member names of each kind
BuiltinMembers(ty) ==
    {"toString"} \cup
    CASE ty = "String"   -> {"concat", "indexOf", "lastIndexOf", "length"}
      [] ty = "Array"    -> {"push", "pop", "shift", "unshift", "slice", "splice",
                             "length"} \cup IndexNames
      [] ty = "Function" -> {"call", "name", "length"}
      [] ty = "Date"     -> {"getTime", "setTime"}
      [] OTHER           -> {}

\* the built-in member names that are synthesized when read
Synthesized(ty) ==
    {"toString"} \cup
    CASE ty = "String"   -> {"concat", "indexOf", "lastIndexOf"}
      [] ty = "Array"    -> {"push", "pop", "shift", "unshift", "slice", "splice"}
      [] ty = "Function" -> {"call"}
      [] ty = "Date"     -> {"getTime", "setTime"}
      [] OTHER           -> {}

\* the built-in member names whose descriptor the constructor stores
StoredByConstructor(o) ==
    CASE o.type = "String"   -> {"length"}
      [] o.type = "Array"    -> {"length"} \cup {to_string(i - 1) : i \in 1..Len(o.value_)}
      [] o.type = "Function" -> {"name", "length"}
      [] OTHER               -> {}

\* those of them a delete can remove
RemovableBuiltins(o) ==
    CASE o.type = "Array"    -> {to_string(i - 1) : i \in 1..Len(o.value_)}
      [] o.type = "Function" -> {"name", "length"}
      [] OTHER               -> {}

(* C1: when the stored descriptor of name has writable=false and no setter,
   set(name, v) returns false for every v, and get(name) right after returns
   what it returned right before. *)
C1_ReadOnlyWriteRejected ==
    [][(/\ last'.op = "set"
        /\ Stored(This, last'.name)
        /\ ~properties_[last'.name].writable
        /\ properties_[last'.name].setter = NoFn)
       => (/\ last'.ret = FALSE
           /\ getProperty(ThisNext, last'.name) = getProperty(This, last'.name))]_vars

C1_Witness ==
    /\ last.op = "set"
    /\ last.before.had
    /\ ~last.before.writable
    /\ ~last.ret
    /\ properties_[last.name].setter = NoFn
    /\ properties_[last.name].getter = NoFn
    /\ properties_[last.name].value # last.val

(* C2: when the stored descriptor of name has configurable=false, delete(name)
   returns false, has(name) stays true and the descriptor is unchanged; delete
   of a name with no stored descriptor returns false and changes nothing. *)
C2_DeleteRejected ==
    [][(last'.op = "delete")
       => (/\ (Stored(This, last'.name) /\ ~properties_[last'.name].configurable)
                => (/\ last'.ret = FALSE
                    /\ Stored(ThisNext, last'.name)
                    /\ properties_'[last'.name] = properties_[last'.name])
           /\ ~Stored(This, last'.name)
                => (last'.ret = FALSE /\ ThisNext = This))]_vars

C2_Witness ==
    /\ last.op = "delete"
    /\ last.before.had
    /\ ~last.before.configurable
    /\ ~last.ret
    /\ Stored(This, last.name)

(* C3: on every kind and for every name, built-in member names included,
   define(name, d) followed by get(name) returns d.getter() when d has a
   getter and d.storedValue otherwise. *)
C3_DefineThenGet ==
    (last.op = "define")
      => getProperty(This, last.name) = ReadOf(This, last.descriptor)

(* C4: set(name, v) on a name with no stored descriptor returns true and
   inserts a value descriptor holding v with all three flags true and no
   accessors; afterwards has(name) is true, get(name) returns v, enumerate()
   contains name and delete(name) returns true. *)
C4_WriteCreates ==
    [][(last'.op = "set" /\ ~Stored(This, last'.name))
       => (/\ last'.ret = TRUE
           /\ Stored(ThisNext, last'.name)
           /\ properties_'[last'.name] = PlainDescriptor(last'.val)
           /\ hasProperty(ThisNext, last'.name)
           /\ getProperty(ThisNext, last'.name) = last'.val
           /\ last'.name \in Range(getPropertyNames(ThisNext))
           /\ deleteProperty(ThisNext, last'.name).ret = TRUE)]_vars

(* C5: for every stored descriptor that has a setter, set(name, v) invokes the
   setter exactly once with v and returns true whatever writable is; set
   itself changes neither the descriptor's storedValue nor its flags, and a
   following get(name) returns the getter evaluated on the state the setter
   left behind. *)
C5_SetterInvoked ==
    [][(/\ last'.op = "set"
        /\ Stored(This, last'.name)
        /\ properties_[last'.name].setter # NoFn)
       => (/\ last'.ret = TRUE
           /\ last'.calls = <<last'.val>>
           /\ ThisNext = CallSetter(This, properties_[last'.name].setter, last'.val)
           /\ properties_' = properties_
           /\ properties_[last'.name].getter # NoFn
                => getProperty(ThisNext, last'.name)
                     = CallGetter(ThisNext, properties_[last'.name].getter))]_vars

(* C6: define(name, d) always returns true and afterwards the stored
   descriptor of name equals d in every facet, whatever was stored before (a
   descriptor with configurable=false and writable=false included); no other
   name's descriptor changes. *)
C6_DefineUpserts ==
    [][(last'.op = "define")
       => (/\ last'.ret = TRUE
           /\ DOMAIN properties_' = (DOMAIN properties_) \cup {last'.name}
           /\ properties_'[last'.name] = last'.descriptor
           /\ \A n \in (DOMAIN properties_) \ {last'.name} :
                  properties_'[n] = properties_[n])]_vars

C6_Witness ==
    /\ last.op = "define"
    /\ last.before.had
    /\ ~last.before.writable
    /\ ~last.before.configurable
    /\ last.descriptor.configurable
    /\ properties_[last.name] = last.descriptor
    /\ Stored(This, OtherName)

(* C7: on a freshly constructed object of any kind, to which no define or set
   has been applied, delete(n) returns false for every built-in member name n
   of that kind, and get(n) resolves to the same built-in afterwards. *)
C7_DeleteBuiltinFails ==
    [][(/\ last'.op = "delete"
        /\ touched = {}
        /\ last'.name \in BuiltinMembers(type))
       => (/\ last'.ret = FALSE
           /\ getProperty(ThisNext, last'.name) = getProperty(This, last'.name))]_vars

(* C7 as amended: on such an object delete(n) returns false, and get(n)
   resolves to the same built-in afterwards, for every built-in member name
   except name and length of a Callable and the index names below the length
   of a List; those the constructor stores configurable, and delete(n)
   returns true and removes them. *)
C7_DeleteBuiltinAmended ==
    [][(/\ last'.op = "delete"
        /\ touched = {}
        /\ last'.name \in BuiltinMembers(type))
       => IF last'.name \in RemovableBuiltins(This)
          THEN last'.ret = TRUE /\ ~Stored(ThisNext, last'.name)
          ELSE /\ last'.ret = FALSE
               /\ getProperty(ThisNext, last'.name) = getProperty(This, last'.name)]_vars

C7_Witness ==
    /\ last.op = "delete"
    /\ touched = {}
    /\ type = "String"
    /\ last.name = "length"
    /\ ~last.ret
    /\ getProperty(This, "length") = U32(2)

(* C8: in every reachable state enumerate() returns, without duplicates,
   exactly the names whose stored descriptor has enumerable=true; on a List
   it never contains "length" while length is stored non-enumerable. *)
C8_EnumerateExact ==
    LET names == IF last.op = "enumerate" THEN last.names ELSE getPropertyNames(This)
    IN  /\ Range(names) = {n \in DOMAIN properties_ : properties_[n].enumerable}
        /\ \A i, j \in 1..Len(names) : names[i] = names[j] => i = j
        /\ (/\ type = "Array"
            /\ Stored(This, "length")
            /\ ~properties_["length"].enumerable)
             => "length" \notin Range(names)

C8_Witness ==
    /\ last.op = "enumerate"
    /\ type = "Array"
    /\ Len(last.names) >= 2
    /\ Stored(This, "length")
    /\ ~properties_["length"].enumerable
    /\ \E n \in DOMAIN properties_ : n # "length" /\ ~properties_[n].enumerable

(* C9: has(name) is true exactly when the stored table holds a descriptor of
   name; on an object where neither define nor set has been applied to a
   built-in member name of its kind (index names aside), has of that name is
   false, before and after get has resolved it. *)
C9_HasIgnoresBuiltins ==
    (last.op = "has")
      => (/\ last.ret = Stored(This, last.name)
          /\ (last.name \in BuiltinMembers(type) \ IndexNames /\ last.name \notin touched)
               => last.ret = FALSE)

(* C9 as amended: has(name) is true exactly when the stored table holds a
   descriptor of name; on an object where no define, set or delete has been
   applied to a built-in member name, has of that name is false, before and
   after get has resolved it, when the name is synthesized on read, and true
   when it is one the constructor stores (length of a String or a List, name
   and length of a Callable). *)
C9_HasAmended ==
    (last.op = "has")
      => (/\ last.ret = Stored(This, last.name)
          /\ (last.name \in BuiltinMembers(type) \ IndexNames /\ last.name \notin touched)
               => last.ret = (last.name \in StoredByConstructor(This)))

C9_Witness ==
    /\ last.op = "has"
    /\ last.afterGet
    /\ last.name \in Synthesized(type) \ {"toString"}
    /\ last.name \notin touched
    /\ ~last.ret

(* C10: when no descriptor is stored for a built-in member name n of the
   object's kind, set(n, v) returns true, creates a plain value descriptor
   holding v, and get(n) then returns v instead of the built-in. *)
C10_WriteShadowsBuiltin ==
    [][(/\ last'.op = "set"
        /\ last'.name \in BuiltinMembers(type)
        /\ ~Stored(This, last'.name))
       => (/\ last'.ret = TRUE
           /\ properties_'[last'.name] = PlainDescriptor(last'.val)
           /\ getProperty(ThisNext, last'.name) = last'.val)]_vars


\* o with the stored value of name replaced by val
WithStoredValue(o, name, val) == [o EXCEPT !.properties_[name].value = val]

(* C11: for every stored descriptor that has a getter or a setter (either
   one), the stored value is never returned by get(name), so that the result
   of get(name) is the same whatever the stored value is, and it is never
   overwritten by set(name, v); for every combination of writable and of
   which accessor is present. *)
C11_AccessorPriority ==
    [][(/\ last'.op \in {"get", "set"}
        /\ Stored(This, last'.name)
        /\ \/ properties_[last'.name].getter # NoFn
           \/ properties_[last'.name].setter # NoFn)
       => IF last'.op = "get"
          THEN \A val \in Values :
                 getProperty(WithStoredValue(This, last'.name, val), last'.name) = last'.val
          ELSE properties_'[last'.name].value = properties_[last'.name].value]_vars

(* C11 as amended: the stored value is never returned by get(name) for a
   stored descriptor that has a getter, and never overwritten by set(name, v)
   for one that has a setter, for every combination of writable and of the
   other accessor. *)
C11_AccessorPriorityAmended ==
    [][(/\ last'.op \in {"get", "set"}
        /\ Stored(This, last'.name))
       => IF last'.op = "get"
          THEN properties_[last'.name].getter # NoFn
                 => \A val \in Values :
                      getProperty(WithStoredValue(This, last'.name, val), last'.name)
                        = last'.val
          ELSE properties_[last'.name].setter # NoFn
                 => properties_'[last'.name].value = properties_[last'.name].value]_vars

C11_Witness ==
    /\ last.op = "get"
    /\ Stored(This, last.name)
    /\ properties_[last.name].getter = CellFn
    /\ properties_[last.name].setter = NoFn
    /\ properties_[last.name].writable
    /\ properties_[last.name].value = U32(2)
    /\ last.val = I32(cell)

\* on the List o, every index name below the length reads and writes its element
IndexNamesLive(o) ==
    \A i \in 0..(Len(o.value_) - 1) :
        /\ getProperty(o, to_string(i)) = o.value_[i + 1]
        /\ \A val \in ListValues :
             LET r == setProperty(o, to_string(i), val) IN
             /\ r.ret = TRUE
             /\ r.obj.value_ = [o.value_ EXCEPT ![i + 1] = val]

(* C12: for every List reachable by construction (sized or from a sequence)
   and by any sequence of push, pop, shift, unshift, splice calls and length
   writes, and for every List returned by slice or splice, and every index i
   with 0 <= i < length: get of the decimal string of i returns element i,
   and set of that name to v returns true and makes element i equal v,
   leaving the length and all other elements unchanged (no write at or
   beyond the length, and no define or delete, having been applied to an
   index name). *)
C12_IndexAccessors ==
    (touched = {})
      => (/\ IndexNamesLive(This)
          /\ (result.type = "Array") => IndexNamesLive(result))

(* C13: on a List of length n and every index i >= n, get of the decimal
   string of i returns the absent Value, and set of that name to v returns
   true and extends the sequence, so that the length becomes i + 1, element i
   equals v, positions n..i-1 hold the absent Value and elements 0..n-1 are
   unchanged. *)
C13_WriteBeyondExtends ==
    [][(/\ last'.op \in {"get", "set"}
        /\ last'.args # <<>>
        /\ last'.args[1].n >= Len(value_))
       => LET i == last'.args[1].n
              n == Len(value_)
          IN  IF last'.op = "get"
              THEN last'.val = Null
              ELSE /\ last'.ret = TRUE
                   /\ Len(value_') = i + 1
                   /\ value_'[i + 1] = last'.val
                   /\ \A j \in (n + 1)..i : value_'[j] = Null
                   /\ \A j \in 1..n : value_'[j] = value_[j]]_vars

\* the length descriptor initializeArrayProperties stores
ConstructorLength == PropertyDescriptor(Null, TRUE, FALSE, FALSE, LengthFn, LengthFn)

\* seq cut or extended with the absent Value to n elements
Resized(seq, n) == [j \in 1..n |-> IF j <= Len(seq) THEN seq[j] ELSE Null]

(* C14: on a List, get("length") always equals the current number of
   elements, and set("length", n) for a requested size n >= 0 returns true
   and leaves the sequence with exactly n elements: the first min(n, old
   length) unchanged, any further elements being the absent Value. *)
C14_LengthTracks ==
    [][/\ (Stored(This, "length") /\ properties_["length"] = ConstructorLength)
          => getProperty(This, "length") = U32(Len(value_))
       /\ (/\ last'.op = "set"
           /\ last'.name = "length"
           /\ properties_["length"] = ConstructorLength
           /\ last'.val.n >= 0)
          => (/\ last'.ret = TRUE
              /\ Len(value_') = last'.val.n
              /\ \A j \in 1..Len(value_') :
                   value_'[j] = IF j <= Len(value_) THEN value_[j] ELSE Null)]_vars

(* C14 as amended: on a List holding the length descriptor its constructor
   stores, get("length") always equals the current number of elements, and
   set("length", n) for a requested size n >= 0 given as an unsigned 32-bit
   Value returns true and leaves the sequence with exactly n elements, the
   first min(n, old length) unchanged and any further ones absent; given as
   a Value of another kind (a signed 32-bit integer included) it returns
   true and leaves the sequence as it was. *)
C14_LengthTracksAmended ==
    [][/\ (Stored(This, "length") /\ properties_["length"] = ConstructorLength)
          => getProperty(This, "length") = U32(Len(value_))
       /\ (/\ last'.op = "set"
           /\ last'.name = "length"
           /\ properties_["length"] = ConstructorLength
           /\ last'.val.n >= 0)
          => (/\ last'.ret = TRUE
              /\ value_' = IF last'.val.t = "uint32"
                           THEN Resized(value_, last'.val.n)
                           ELSE value_)]_vars

\* a length write has extended the List by an absent element
C14_Witness ==
    /\ last.op = "set"
    /\ last.name = "length"
    /\ last.val = U32(2)
    /\ last.ret
    /\ value_ = <<I32(1), Null>>
    /\ getProperty(This, "length") = U32(2)

(* C15: push(a1..ak), k >= 0, leaves the sequence equal to the old sequence
   followed by a1..ak in order and returns the old length plus k; a
   following get("length") returns that same number. *)
C15_PushAppends ==
    [][(last'.op = "push")
       => (/\ value_' = value_ \o last'.args
           /\ last'.out = U32(Len(value_) + Len(last'.args))
           /\ getProperty(ThisNext, "length") = last'.out)]_vars

\* push(a, b, c) on an empty List has returned 3
C15_Witness ==
    /\ last.op = "push"
    /\ Len(last.args) = 3
    /\ last.args[1] # last.args[3]
    /\ value_ = last.args
    /\ last.out = U32(3)
    /\ getProperty(This, "length") = U32(3)

(* C16: pop on a non-empty List returns the last element and removes it,
   the length going down by one and the other elements staying as they were;
   pop on an empty List returns the absent Value and leaves it empty. *)
C16_PopRemovesLast ==
    [][(last'.op = "pop")
       => IF value_ = <<>>
          THEN last'.out = Null /\ value_' = <<>>
          ELSE /\ last'.out = value_[Len(value_)]
               /\ Len(value_') = Len(value_) - 1
               /\ \A j \in 1..Len(value_') : value_'[j] = value_[j]]_vars

C16_Witness ==
    /\ last.op = "pop"
    /\ last.out = I32(2)
    /\ value_ = <<I32(1), I32(1)>>
    /\ getProperty(This, "length") = U32(2)

\* k calls of shift in a row on o: the object afterwards and what they returned
RECURSIVE Shifts(_, _)
Shifts(o, k) ==
    IF k = 0 THEN [obj |-> o, rets |-> <<>>]
    ELSE LET r == JArray_shift(o, <<>>)
             rest == Shifts(r.obj, k - 1)
         IN  [obj |-> rest.obj, rets |-> <<r.ret>> \o rest.rets]

(* C17: unshift(x1..xk) on a List holding S leaves x1..xk followed by S and
   returns |S| + k; k following shift calls return x1..xk in that order and
   restore S; shift on an empty List returns the absent Value and leaves it
   empty. *)
C17_UnshiftShift ==
    [][/\ (last'.op = "unshift")
          => (/\ value_' = last'.args \o value_
              /\ last'.out = U32(Len(value_) + Len(last'.args))
              /\ Shifts(ThisNext, Len(last'.args)).rets = last'.args
              /\ Shifts(ThisNext, Len(last'.args)).obj.value_ = value_)
       /\ (last'.op = "shift" /\ value_ = <<>>)
          => (last'.out = Null /\ value_' = <<>>)]_vars

C17_Witness ==
    /\ last.op = "unshift"
    /\ Len(last.args) = 2
    /\ last.args[1] # last.args[2]
    /\ Len(value_) = 3
    /\ value_[3] # value_[2]
    /\ Shifts(This, 2).rets = last.args
    /\ Shifts(This, 2).obj.value_ = <<value_[3]>>

\* a start or end argument v brought into 0..n
Normalized(v, n) == IF v < 0 THEN Max(0, n + v) ELSE Min(v, n)

\* elements from..to-1 (counted from 0) of seq
Elements(seq, from, to) ==
    IF from < to THEN [j \in 1..(to - from) |-> seq[from + j]] ELSE <<>>

(* C18: slice(start, end) on a List of length n, for all integers start and
   end (end defaulting to n, start to 0), gives, with s = max(0, n + start)
   if start < 0 else min(start, n) and e likewise from end, a new List
   holding elements s..e-1 when s < e and an empty List otherwise; the
   receiver is unchanged, and a later mutation of the result does not change
   the receiver. *)
C18_SliceCopies ==
    [][/\ (last'.op = "slice")
          => LET n == Len(value_)
                 s == IF Len(last'.args) > 0 THEN Normalized(last'.args[1].n, n) ELSE 0
                 e == IF Len(last'.args) > 1 THEN Normalized(last'.args[2].n, n) ELSE n
             IN  /\ last'.out = ArrayRef("result")
                 /\ result'.type = "Array"
                 /\ result'.value_ = Elements(value_, s, e)
                 /\ value_' = value_
                 /\ properties_' = properties_
       /\ (last'.op = "pushResult" /\ last.op = "slice")
          => (/\ value_' = value_
              /\ properties_' = properties_
              /\ Len(result'.value_) = Len(result.value_) + 1)]_vars

\* slice(-2) on a List of three elements has given its last two
C18_Witness ==
    /\ last.op = "slice"
    /\ last.args = <<I32(-2)>>
    /\ value_ = <<I32(2), I32(1), I32(2)>>
    /\ result.value_ = <<I32(1), I32(2)>>

(* C19: splice(start, deleteCount, y1..ym) on a List holding S of length n,
   for all integers start and deleteCount, with s the normalized start and
   d = deleteCount clamped to [0, n - s], returns a new List holding exactly
   S[s..s+d-1] in order (an empty List when d = 0) and leaves the receiver
   equal to S[0..s-1] followed by y1..ym followed by S[s+d..n-1], its length
   being n - d + m. *)
C19_SpliceCutsAndInserts ==
    [][(last'.op = "splice" /\ Len(last'.args) >= 2)
       => LET n == Len(value_)
              s == Normalized(last'.args[1].n, n)
              d == Max(0, Min(last'.args[2].n, n - s))
              y == SubSeq(last'.args, 3, Len(last'.args))
          IN  /\ last'.out = ArrayRef("result")
              /\ result'.type = "Array"
              /\ result'.value_ = Elements(value_, s, s + d)
              /\ value_' = Elements(value_, 0, s) \o y \o Elements(value_, s + d, n)
              /\ Len(value_') = n - d + Len(y)]_vars

\* splice(1, 2, x) on a List of three elements has returned the last two
C19_Witness ==
    /\ last.op = "splice"
    /\ last.args = <<I32(1), I32(2), I32(2)>>
    /\ result.type = "Array"
    /\ result.value_ = <<I32(2), I32(1)>>
    /\ value_ = <<I32(1), I32(2)>>

\* reading by integer index: JArray::operator[](size_t) on a List,
\* JObject::operator[](int) otherwise
IndexRead(o, index) ==
    IF o.type = "Array" THEN JArray_At(o, index)
    ELSE getPropertyInternal(o, to_string(index))

\* writing by integer index: JArray::setElement on a List,
\* JObject::setPropertyValue(int, value) otherwise
IndexWrite(o, index, val) ==
    IF o.type = "Array" THEN JArray_setElement(o, index, val)
    ELSE setProperty(o, to_string(index), val).obj

(* C20: index sugar is the string form, on every object kind and in every
   reachable state: reading by integer index i returns the same Value as get
   of the decimal string of i, and writing by integer index has the same
   effect on the table and the payload as set of the decimal string of i. *)
C20_IndexSugar ==
    [][/\ (last'.op = "at")
          => last'.val = getProperty(This, last'.name)
       /\ (last'.op = "setElement")
          => ThisNext = setProperty(This, last'.name, last'.val).obj
       /\ \A index \in Indices :
            /\ IndexRead(This, index) = getProperty(This, to_string(index))
            /\ \A val \in ListValues :
                 IndexWrite(This, index, val)
                   = setProperty(This, to_string(index), val).obj]_vars

(* C21: an operation that reports failure performs no mutation: when
   set(name, v) returns false or delete(name) returns false, the whole stored
   table and the kind's payload (List sequence, String text, Callable name,
   Timestamp instant) are the same after the call as before it. *)
C21_FailureChangesNothing ==
    [][(last'.op \in {"set", "delete"} /\ last'.ret = FALSE)
       => ThisNext = This]_vars

\* a write to the read-only length of a String has failed
C21_Witness ==
    /\ last.op = "set"
    /\ last.ret = FALSE
    /\ last.val # Null
    /\ type = "String"
    /\ last.name = "length"
    /\ value_ = <<"a", "b">>
    /\ properties_["length"].value = Null

\* what spec section 5 gives as each kind's display rule
RECURSIVE CommaJoined(_)
CommaJoined(values) ==
    IF values = <<>> THEN ""
    ELSE IF Len(values) = 1 THEN valueToString(values[1])
    ELSE CommaJoined(SubSeq(values, 1, Len(values) - 1)) \o ","
         \o valueToString(values[Len(values)])

Rendering(o) ==
    CASE o.type = "Object"   -> "[object Object]"
      [] o.type = "String"   -> Flat(o.value_)
      [] o.type = "Array"    -> CommaJoined(o.value_)
      [] o.type = "Function" -> "function " \o o.name_ \o "() { [native code] }"
      [] OTHER               -> toString(o)

\* C22: on an object that stores no toString descriptor every get("toString")
\* returns a JFunction instance no earlier get returned, every call of any of
\* them returns the String of the object's kind-specific rendering, and
\* neither the get nor the call changes the table or the payload.
C22_ToStringIdempotent ==
    [][(focus = "toString" /\ ~Stored(This, "toString")
        /\ (last'.op = "toString" \/ (last'.op = "get" /\ last'.name = "toString")))
       => /\ ThisNext = This
          /\ \A j, k \in DOMAIN held' : j # k => held'[j].id # held'[k].id
          /\ last'.op = "toString" =>
                 last'.out = StringValue(Rendering(This))]_vars

C22_Witness ==
    /\ type = "Array"
    /\ value_ = <<I32(1), I32(2)>>
    /\ Len(held) = 2
    /\ \A k \in DOMAIN held : ~held[k].stale
    /\ last.op = "toString"
    /\ last.id = 2
    /\ last.out = StringValue("1,2")

\* C23: a call of a synthesized function the caller got earlier, whatever
\* mutations came in between and whichever of the instances got under that
\* name is called, returns and does what a call of the function of that name
\* on the object as it is at the call does.
C23_BoundToLiveObject ==
    [][last'.id > 0
       => LET now == CallBuiltin(This, last'.op, last'.args) IN
          /\ last'.out = now.ret
          /\ ThisNext = now.obj
          /\ result' = now.made]_vars

C23_Witness ==
    /\ type = "Array"
    /\ Len(held) = 2
    /\ last.op = "slice"
    /\ last.id = 1
    /\ held[1].stale
    /\ value_ = <<I32(2)>>
    /\ result.value_ = <<I32(2)>>

\* the renderings of args one after the other
RECURSIVE Renderings(_)
Renderings(args) ==
    IF args = <<>> THEN "" ELSE valueToString(Head(args)) \o Renderings(Tail(args))

\* x occurs in text at the 0-based position p
OccursAt(text, x, p) ==
    /\ p >= 0
    /\ p + Len(x) <= Len(text)
    /\ \A i \in 1..Len(x) : SubSeq(x, i, i) = SubSeq(text, p + i, p + i)

\* C25: on a String with text T, concat(a1..ak) returns the String T followed
\* by the renderings of a1..ak in order and leaves T unchanged; indexOf(x)
\* returns the first 0-based position where x's rendering occurs in T, and -1
\* when it occurs nowhere or no argument is given; get("length") is the
\* number of characters of the current T.
C25_StringBuiltins ==
    [][type = "String"
       => LET T == Flat(value_) IN
          /\ getProperty(ThisNext, "length") = U32(Len(value_'))
          /\ (last'.id > 0 /\ last'.op = "concat")
                 => /\ last'.out = StringValue(T \o Renderings(last'.args))
                    /\ value_' = value_
          /\ (last'.id > 0 /\ last'.op = "indexOf")
                 => IF last'.args = <<>> THEN last'.out = I32(-1)
                    ELSE LET x == valueToString(last'.args[1]) IN
                         /\ last'.out.t = "int32"
                         /\ \/ /\ last'.out.n = -1
                               /\ \A p \in 0..Len(T) : ~OccursAt(T, x, p)
                            \/ /\ OccursAt(T, x, last'.out.n)
                               /\ \A p \in 0..(last'.out.n - 1) : ~OccursAt(T, x, p)]_vars

C25_Witness ==
    /\ type = "String"
    /\ value_ = <<"a", "b">>
    /\ last.id > 0
    /\ last.op = "concat"
    /\ last.args = <<I32(1), Null>>
    /\ last.out = StringValue("ab1null")
    /\ getProperty(This, "length") = U32(2)

\* C29: for a millisecond timestamp t >= 0, after JDate(t), after setTime(t)
\* and after a call of the function got as "setTime" with t, getTime() is t,
\* and that call returns t.
C29_MillisecondRoundTrip ==
    [][/\ (last.op = "new" /\ type = "Date") => JDate_getTime(This) = last.args[1].n
       /\ (last'.op = "JDate::setTime") => JDate_getTime(ThisNext) = last'.args[1].n
       /\ (last'.id > 0 /\ last'.op = "setTime" /\ last'.args # <<>>
           /\ last'.args[1].t \in {"uint64", "int32"} /\ last'.args[1].n >= 0)
              => /\ JDate_getTime(ThisNext) = last'.args[1].n
                 /\ last'.out = U64(last'.args[1].n)]_vars

\* C26: a get of a name that is not stored, or whose stored descriptor holds
\* no getter, leaves the table and the payload as they were, and a get of a
\* name that is not stored and is no built-in member of the kind returns
\* absent.
C26_GetChangesNothing ==
    [][(last'.op = "get"
        /\ (Stored(This, last'.name) => This.properties_[last'.name].getter = NoFn))
       => /\ ThisNext = This
          /\ (~Stored(This, last'.name) /\ last'.name \notin BuiltinMembers(type))
                 => last'.val = Null]_vars

C26_Witness ==
    /\ type = "Date"
    /\ last.op = "get"
    /\ last.name = PlainName
    /\ ~Stored(This, PlainName)
    /\ PlainName \in touched
    /\ last.val = Null

\* the names stored before or after the step
StoredNames == DOMAIN properties_ \cup DOMAIN properties_'

\* the stored descriptor of name is not after the step what it was before
DescriptorChanged(name) ==
    \/ Stored(This, name) # Stored(ThisNext, name)
    \/ /\ Stored(This, name)
       /\ Stored(ThisNext, name)
       /\ properties_[name] # properties_'[name]

\* the step is a define, a set or a successful delete of name
Targets(name) ==
    /\ last'.name = name
    /\ \/ last'.op \in {"define", "set"} /\ Stored(ThisNext, name)
       \/ /\ last'.op = "delete"
          /\ last'.ret = TRUE
          /\ Stored(This, name)
          /\ properties_[name].configurable
          /\ ~Stored(ThisNext, name)

\* the step is a List operation that ends in updateLength, and name is the
\* name of an index below the new length, now holding that index's accessor
Reindexed(name) ==
    /\ type = "Array"
    /\ last'.op \in {"push", "pop", "shift", "unshift", "splice", "setElement"}
    /\ \E i \in 0..(Len(value_') - 1) :
           /\ name = to_string(i)
           /\ properties_'[name] =
                  PropertyDescriptor(Null, TRUE, TRUE, TRUE, IndexFn(i), IndexFn(i))

\* C27: the stored descriptor of a name changes only in a step that is a
\* define or a set of that name, or a delete of that name that returns true
\* on a configurable descriptor; a call of a built-in function or a get
\* changes no stored descriptor.
C27_ChangesOnlyByName ==
    [][\A name \in StoredNames : DescriptorChanged(name) => Targets(name)]_vars

\* C27 amended: ... or in a List operation that re-installs the index
\* accessors (push, pop, shift, unshift, splice, setElement), for the name of
\* an index below the new length; every other call and every get changes no
\* stored descriptor.
C27_ChangesOnlyByNameAmended ==
    [][\A name \in StoredNames :
           DescriptorChanged(name) => (Targets(name) \/ Reindexed(name))]_vars

C27_Witness ==
    /\ type = "Array"
    /\ last.id > 0
    /\ last.op = "push"
    /\ Len(value_) = 2
    /\ Stored(This, "1")
    /\ properties_["1"].getter = IndexFn(1)

\* C28: on a List of n elements, for all int32 start, end and deleteCount,
\* slice computes 0 <= startIndex <= n and 0 <= endIndex <= n, splice
\* computes 0 <= startIndex <= startIndex + deleteCount <= n, and pop and
\* shift read an element only of a List that is not empty.
C28_PositionsInRange ==
    [][LET n == Len(value_)
           p == last'.positions
       IN  /\ last'.op = "slice" => (0 <= p[1] /\ p[1] <= n /\ 0 <= p[2] /\ p[2] <= n)
           /\ last'.op = "splice" =>
                  (0 <= p[1] /\ p[1] <= p[1] + p[2] /\ p[1] + p[2] <= n)
           /\ last'.op \in {"pop", "shift"} =>
                  /\ n = 0 => p = <<>>
                  /\ \A i \in DOMAIN p : 0 <= p[i] /\ p[i] < n]_vars

C28_Witness ==
    /\ last.op = "slice"
    /\ last.args = <<I32(Int32Min), I32(Int32Max)>>
    /\ Len(value_) = 2
    /\ last.positions = <<0, 2>>

\* enumerate and has of the List o name exactly the indices below its length,
\* and no name of an index at or beyond the length is stored
IndexNamesExact(o) ==
    LET n == Len(o.value_) IN
    /\ Range(getPropertyNames(o)) = {to_string(i) : i \in 0..(n - 1)}
    /\ \A i \in 0..(MaxLen + 2) :
           /\ hasProperty(o, to_string(i)) <=> i < n
           /\ i >= n => ~Stored(o, to_string(i))

\* C30: a constructed List enumerates exactly the decimal names of the
\* indices 0..length-1 and has is true of a decimal name exactly for those
\* indices, and every push, pop, shift, unshift, splice call and every length
\* write keeps it so: in particular no name of an index at or beyond the
\* length stays stored when the List shrinks.
C30_IndexNamesFollowLength ==
    [][/\ last.op = "new" => IndexNamesExact(This)
       /\ (/\ IndexNamesExact(This)
           /\ \/ last'.op \in {"push", "pop", "shift", "unshift", "splice"}
              \/ last'.op = "set" /\ last'.name = "length")
          => IndexNamesExact(ThisNext)]_vars

\* C24: every call returns, whatever handles the object holds: a call of the
\* toString function of a List, also of one that holds a handle to itself
\* directly or through a nested List or stores itself in its table, returns
\* after finitely many steps.
C24_EveryCallReturns == (frames # <<>>) ~> (frames = <<>>)

=============================================================================
